---- MODULE Spec2Model ----
(***************************************************************************)
(* resperr: HTTP status codes and user messages attached to Go errors.     *)
(*                                                                         *)
(* The module models                                                       *)
(*   - the chain walker allAs/allAsBool (chain.go),                        *)
(*   - the resolvers StatusCode and UserMessage (resperr.go),              *)
(*   - the annotated error E, its accessors and its Error text (e.go),     *)
(*   - the field Validator and ValidationErrors (validator.go).            *)
(*                                                                         *)
(* An error value is a tree of nodes.  Every node is a record              *)
(*     [kind, S, M, p, kids, vals, id]                                     *)
(*   kind = "nil"    the nil error                                         *)
(*   kind = "E"      resperr.E{S, M, E}; kids is <<cause>> (cause may be   *)
(*                   the nil error)                                        *)
(*   kind = "m"      the value returned by resperr.M: a message, no cause  *)
(*   kind = "ve"     validatorErrors: the field messages are in vals       *)
(*   kind = "leaf"   an error of another package without Unwrap            *)
(*   kind = "wrap"   an error of another package with Unwrap() error       *)
(*   kind = "multi"  an error of another package with Unwrap() []error     *)
(* and p, the profile, says which methods an error of another package has  *)
(* and what they answer.  id tells one error value from another of the     *)
(* same content: the same id at two places of a tree is one error reached  *)
(* by two paths.                                                           *)
(***************************************************************************)
EXTENDS Integers, Sequences, FiniteSets, TLC

\* ---------------------------------------------------------------- bounds
\* Largest number of nodes of the error values under construction.
MaxNodes == 3
\* Largest number of Validator calls in one behaviour.
MaxCalls == 3
\* Largest number of nodes of the error values Error() is called on.
MaxDeep == 4

\* ------------------------------------------------------- outcome values
\* Outcome of a call that panics instead of returning an int.
Panic == -1
\* Outcome of a call that panics instead of returning a string.
PanicMsg == "<panic>"

\* --------------------------------------------------------------- nodes
\* Field names and message templates the callers of Validator use.
Fields == {"x", "y"}

\* url.Values with no entry: every field reads as the empty list.
NoVals == [f \in Fields |-> <<>>]

Nil == [kind |-> "nil", S |-> 0, M |-> "", p |-> "plain", kids |-> <<>>,
        vals |-> NoVals, id |-> 0]

\* resperr.E{S: s, M: m, E: cause}
MkE(s, m, cause) ==
    [kind |-> "E", S |-> s, M |-> m, p |-> "plain", kids |-> <<cause>>,
     vals |-> NoVals, id |-> 0]

\* resperr.M(format, v...): a bare user message
MkM(msg) ==
    [kind |-> "m", S |-> 0, M |-> msg, p |-> "plain", kids |-> <<>>,
     vals |-> NoVals, id |-> 0]

\* validatorErrors(values): the error Validator.Err returns
MkVE(values) ==
    [kind |-> "ve", S |-> 0, M |-> "", p |-> "plain", kids |-> <<>>,
     vals |-> values, id |-> 0]

\* errors of other packages
MkLeaf(p) ==
    [kind |-> "leaf", S |-> 0, M |-> "", p |-> p, kids |-> <<>>,
     vals |-> NoVals, id |-> 0]
MkWrap(p, cause) ==
    [kind |-> "wrap", S |-> 0, M |-> "", p |-> p, kids |-> <<cause>>,
     vals |-> NoVals, id |-> 0]
MkMulti(p, causes) ==
    [kind |-> "multi", S |-> 0, M |-> "", p |-> p, kids |-> causes,
     vals |-> NoVals, id |-> 0]

\* The error value node, told from the others by n.
WithId(node, n) == [node EXCEPT !.id = n]

\* Profiles of errors of other packages:
\*   plain      only Error()
\*   sc0, sc5   StatusCode() answering 0 resp. 5
\*   um0, um1   UserMessage() answering "" resp. "hello"
\*   toT, toF   Timeout() answering true resp. false
\*   tmpT       Temporary() answering true
\*   deadline   Timeout() and Temporary() both answering true
\*              (context.DeadlineExceeded)
\*   asF, asT, asP  an As(any) bool method that, called with a nil target,
\*              answers false, answers true, resp. panics (an As method
\*              that reflects on its target, as net/http's stream error)
Profiles == {"plain", "sc0", "sc5", "um0", "um1", "toT", "toF", "tmpT",
             "deadline", "asF", "asT", "asP"}

\* Status codes and messages the callers of E use.
ECodes == {0, 5, 404}
EMsgs == {"", "msg1"}

\* Number of nodes of an error value.
RECURSIVE Size(_), SizeSeq(_, _)
Size(err) ==
    IF err.kind = "nil" THEN 0 ELSE 1 + SizeSeq(err.kids, 1)
SizeSeq(kids, i) ==
    IF i > Len(kids) THEN 0 ELSE Size(kids[i]) + SizeSeq(kids, i + 1)

\* x := value; Body(x): the value is computed once, as that of a local
\* variable is.
Bind(value, Body(_)) == CHOOSE r \in {Body(x) : x \in {value}} : TRUE

\* ------------------------------------------------- methods of the nodes
\* The method sets: which interface a node satisfies by a type assertion
\* (err.(T) in allAsBool, the assignability test in errors.As).
Implements(err, T) ==
    CASE T = "StatusCoder" ->
           \/ err.kind \in {"E", "ve"}
           \/ err.kind \in {"leaf", "wrap", "multi"} /\ err.p \in {"sc0", "sc5"}
      [] T = "UserMessenger" ->
           \/ err.kind \in {"E", "m"}
           \/ err.kind \in {"leaf", "wrap", "multi"} /\ err.p \in {"um0", "um1"}
      [] T = "ValidationError" -> err.kind = "ve"
      [] T = "Timeout" ->
           err.kind \in {"leaf", "wrap", "multi"}
               /\ err.p \in {"toT", "toF", "deadline"}
      [] T = "Temporary" ->
           err.kind \in {"leaf", "wrap", "multi"}
               /\ err.p \in {"tmpT", "deadline"}
      [] OTHER -> FALSE

\* err.(interface{ As(any) bool })
HasAs(err) ==
    err.kind \in {"leaf", "wrap", "multi"} /\ err.p \in {"asF", "asT", "asP"}

\* What errAs.As(target) does when target is the nil interface value.
AsNilTarget(err) ==
    CASE err.p = "asT" -> "true"
      [] err.p = "asP" -> "panic"
      [] OTHER -> "false"

\* err.(interface{ Unwrap() error }) and err.(interface{ Unwrap() []error })
HasUnwrap(err) == err.kind \in {"E", "wrap"}
HasUnwrapMulti(err) == err.kind = "multi"

\* e.Unwrap() of a node with the single-cause method
Unwrap(err) == err.kids[1]

\* timeouter.Timeout() and temper.Temporary()
Timeout(err) == err.p \in {"toT", "deadline"}
Temporary(err) == err.p \in {"tmpT", "deadline"}

\* http.StatusText: the empty string for a code without a standard text.
StatusText(code) ==
    CASE code = 200 -> "OK"
      [] code = 400 -> "Bad Request"
      [] code = 404 -> "Not Found"
      [] code = 500 -> "Internal Server Error"
      [] code = 503 -> "Service Unavailable"
      [] code = 504 -> "Gateway Timeout"
      [] OTHER -> ""

\* ----------------------------------------------------------- errors.As
\* errors.As(err, &target) for a target of interface type T: the first
\* node, in depth-first pre-order, that is assignable to T, or Nil when As
\* answers false.  The As methods of the profiles asF, asT and asP answer
\* false for a pointer to an interface.
RECURSIVE errorsAs(_, _), errorsAsList(_, _, _)
errorsAs(err, T) ==
    IF err.kind = "nil" THEN Nil
    ELSE IF Implements(err, T) THEN err
    ELSE IF HasUnwrap(err) THEN errorsAs(Unwrap(err), T)
    ELSE IF HasUnwrapMulti(err) THEN errorsAsList(err.kids, 1, T)
    ELSE Nil
errorsAsList(errs, i, T) ==
    IF i > Len(errs) THEN Nil
    ELSE LET found == errorsAs(errs[i], T)
         IN  IF found.kind # "nil" THEN found
             ELSE errorsAsList(errs, i + 1, T)

\* ------------------------------------------------------ the chain walker
\* The state of a range-over-func loop over allAs[T](err):
\*   go     the loop body has not returned or panicked: yield answers true
\*   found  the loop body returned val
\*   panic  the walk or the loop body panicked
\*   seen   the values yielded so far; NilT stands for the nil T that
\*          allAsBool yields after an As method answered true
\*   visited  the non-nil errors allAsBool was called on so far
NilT == [kind |-> "nilT", S |-> 0, M |-> "", p |-> "plain", kids |-> <<>>,
         vals |-> NoVals, id |-> 0]

LoopStart == [go |-> TRUE, found |-> FALSE, panic |-> FALSE, val |-> 0,
              seen |-> <<>>, visited |-> <<>>]

LoopPanic(st) == [st EXCEPT !.go = FALSE, !.panic = TRUE]

RECURSIVE StatusCode(_), UserMessage(_), E_StatusCode(_), E_UserMessage(_)
RECURSIVE allAsBool(_, _, _), allAsBoolList(_, _, _, _)

\* sc.StatusCode() of a node that implements StatusCoder
StatusCodeOf(sc) ==
    CASE sc.kind = "E" -> E_StatusCode(sc)
      [] sc.kind = "ve" -> 400
      [] sc.p = "sc5" -> 5
      [] OTHER -> 0

\* um.UserMessage() of a node that implements UserMessenger
UserMessageOf(um) ==
    CASE um.kind = "E" -> E_UserMessage(um)
      [] um.kind = "m" -> um.M
      [] um.p = "um1" -> "hello"
      [] OTHER -> ""

\* A loop body that returns what the first node reports, zero or not.
Yield_NoSkip(T, item, st) ==
    LET st1 == [st EXCEPT !.seen = Append(@, item)]
    IN  IF item.kind = "nilT" THEN LoopPanic(st1)
        ELSE [st1 EXCEPT !.go = FALSE, !.found = TRUE,
                         !.val = IF T = "StatusCoder"
                                 THEN StatusCodeOf(item)
                                 ELSE UserMessageOf(item)]

\* One call of yield: the body of the loop of StatusCode (T = "StatusCoder":
\* return the code unless it is 0) or of UserMessage (T = "UserMessenger":
\* return the message unless it is empty).  A method call on the nil T is
\* a nil dereference.
Yield(T, item, st) ==
    LET st1 == [st EXCEPT !.seen = Append(@, item)]
    IN  IF item.kind = "nilT" THEN LoopPanic(st1)
        ELSE IF T = "StatusCoder" THEN
            Bind(StatusCodeOf(item), LAMBDA code :
                IF code = Panic THEN LoopPanic(st1)
                ELSE IF code # 0
                     THEN [st1 EXCEPT !.go = FALSE, !.found = TRUE,
                                      !.val = code]
                     ELSE st1)
        ELSE
            Bind(UserMessageOf(item), LAMBDA msg :
                IF msg = PanicMsg THEN LoopPanic(st1)
                ELSE IF msg # ""
                     THEN [st1 EXCEPT !.go = FALSE, !.found = TRUE,
                                      !.val = msg]
                     ELSE st1)

\* allAsBool[T](err, yield): st.go of the result is the bool it returns.
allAsBool(err, T, st) ==
    LET st0 == IF err.kind = "nil" THEN st
               ELSE [st EXCEPT !.visited = Append(@, err)]
    IN  Bind(IF Implements(err, T) THEN Yield(T, err, st0) ELSE st0,
             LAMBDA st1 :
        Bind(IF ~st1.go \/ ~HasAs(err) THEN st1
             ELSE IF AsNilTarget(err) = "panic" THEN LoopPanic(st1)
             ELSE IF AsNilTarget(err) = "true" THEN Yield(T, NilT, st1)
             ELSE st1,
             LAMBDA st2 :
        IF ~st2.go THEN st2
        ELSE IF HasUnwrap(err) THEN allAsBool(Unwrap(err), T, st2)
        ELSE IF HasUnwrapMulti(err) THEN allAsBoolList(err.kids, 1, T, st2)
        ELSE st2))
\* The loop over the causes that returns after the first of them.
allAsBoolList_FirstOnly(errs, i, T, st) ==
    IF i > Len(errs) \/ ~st.go THEN st
    ELSE allAsBool(errs[i], T, st)

allAsBoolList(errs, i, T, st) ==
    IF i > Len(errs) \/ ~st.go THEN st
    ELSE Bind(allAsBool(errs[i], T, st), LAMBDA st1 :
             allAsBoolList(errs, i + 1, T, st1))

\* allAs[T](err) ranged over by the loop of StatusCode or UserMessage
allAs(err, T) == allAsBool(err, T, LoopStart)

\* ------------------------------------------------------- the resolvers
\* StatusCode without its nil case: the nil error falls through to the
\* default.
StatusCode_NoNilCase(err) ==
    LET timeouter == errorsAs(err, "Timeout")
        temper == errorsAs(err, "Temporary")
        um == errorsAs(err, "UserMessenger")
    IN  Bind(allAs(err, "StatusCoder"), LAMBDA loop :
        IF loop.panic THEN Panic
        ELSE IF loop.found THEN loop.val
        ELSE IF timeouter.kind # "nil" /\ Timeout(timeouter) THEN 504
        ELSE IF temper.kind # "nil" /\ Temporary(temper) THEN 503
        ELSE IF um.kind # "nil" /\ UserMessageOf(um) # "" THEN 400
        ELSE 500)

\* resperr.StatusCode(err)
StatusCode(err) ==
    IF err.kind = "nil" THEN 200
    ELSE LET timeouter == errorsAs(err, "Timeout")
             temper == errorsAs(err, "Temporary")
             um == errorsAs(err, "UserMessenger")
         IN  Bind(allAs(err, "StatusCoder"), LAMBDA loop :
             IF loop.panic THEN Panic
             ELSE IF loop.found THEN loop.val
             ELSE IF timeouter.kind # "nil" /\ Timeout(timeouter) THEN 504
             ELSE IF temper.kind # "nil" /\ Temporary(temper) THEN 503
             ELSE IF um.kind # "nil" /\ UserMessageOf(um) # "" THEN 400
             ELSE 500)

\* resperr.UserMessage(err)
UserMessage(err) ==
    IF err.kind = "nil" THEN ""
    ELSE Bind(allAs(err, "UserMessenger"), LAMBDA loop :
             IF loop.panic THEN PanicMsg
             ELSE IF loop.found THEN loop.val
             ELSE Bind(StatusCode(err), LAMBDA code :
                      IF code = Panic THEN PanicMsg ELSE StatusText(code)))

\* E.StatusCode() that does not look at the cause.
E_StatusCode_OwnOnly(e) == e.S

\* E.StatusCode()
E_StatusCode(e) ==
    IF e.S # 0 THEN e.S
    ELSE IF Unwrap(e).kind # "nil" THEN StatusCode(Unwrap(e))
    ELSE 0

\* E.UserMessage()
E_UserMessage(e) ==
    IF e.M # "" THEN e.M
    ELSE LET um == errorsAs(Unwrap(e), "UserMessenger")
         IN  IF um.kind # "nil" THEN UserMessageOf(um) ELSE ""

\* ------------------------------------------------------ the Error texts
\* fmt.Sprintf("[%d] <%s> %v", code, message, cause) and
\* fmt.Sprintf("[%d] %v", code, cause)
WithMessage(code, message, cause) ==
    "[" \o ToString(code) \o "] <" \o message \o "> " \o cause
WithoutMessage(code, cause) == "[" \o ToString(code) \o "] " \o cause

\* What fmt puts in place of an operand whose Error method panics.
CaughtPanic == "%!w(PANIC=Error method: runtime error)"

\* The loop of E.Error over the directly nested E values: m is the first
\* non-empty M so far, err the cause still to look at.
RECURSIVE Flatten(_, _)
Flatten(err, m) ==
    IF err.kind = "E"
    THEN Flatten(Unwrap(err), IF m # "" THEN m ELSE err.M)
    ELSE [m |-> m, err |-> err]

\* url.Values.Encode of the map, unescaped again, "&" replaced by " ": the
\* fields in sorted order, every message as field=message.
RECURSIVE EncodeField(_, _, _)
EncodeField(field, msgs, i) ==
    IF i > Len(msgs) THEN ""
    ELSE (IF i > 1 THEN " " ELSE "") \o field \o "=" \o msgs[i]
             \o EncodeField(field, msgs, i + 1)

RECURSIVE ErrorOf(_), ErrorOfList(_, _), E_Error(_)

\* err.Error() of a non-nil error.  The texts of the errors of other
\* packages are made from their profile.  A wrapper with the profile plain
\* is one of fmt.Errorf: its text was made when it was built, and fmt
\* recovers from a panic of the Error method of the operand.  The other
\* wrappers and errors.Join call the Error method of their causes when
\* asked, as *os.PathError and *url.Error do.
ErrorOf(err) ==
    CASE err.kind = "E" -> E_Error(err)
      [] err.kind = "m" -> "<" \o err.M \o ">"
      [] err.kind = "ve" ->
           "validation error: " \o EncodeField("x", err.vals["x"], 1)
               \o (IF err.vals["x"] # <<>> /\ err.vals["y"] # <<>>
                   THEN " " ELSE "")
               \o EncodeField("y", err.vals["y"], 1)
      [] err.kind = "leaf" -> err.p \o " error"
      [] err.kind = "wrap" ->
           Bind(ErrorOf(Unwrap(err)), LAMBDA cause :
               IF err.p = "plain"
               THEN "wrapping: " \o (IF cause = PanicMsg THEN CaughtPanic
                                     ELSE cause)
               ELSE IF cause = PanicMsg THEN PanicMsg
               ELSE err.p \o ": " \o cause)
      [] OTHER -> ErrorOfList(err.kids, 1)

\* joinError.Error(): the texts of the causes, one per line
ErrorOfList(errs, i) ==
    IF i > Len(errs) THEN ""
    ELSE Bind(ErrorOf(errs[i]), LAMBDA head :
         Bind(ErrorOfList(errs, i + 1), LAMBDA rest :
             IF head = PanicMsg \/ rest = PanicMsg THEN PanicMsg
             ELSE IF i < Len(errs) THEN head \o "\n" \o rest
             ELSE head))

\* E.Error()
E_Error(e) ==
    Bind(Flatten(Unwrap(e), e.M), LAMBDA flat :
    Bind(E_StatusCode(e), LAMBDA own :
        LET code == IF own = 0 THEN (IF flat.m # "" THEN 400 ELSE 500)
                    ELSE own
        IN  Bind(IF flat.err.kind = "nil" THEN StatusText(code)
                 ELSE ErrorOf(flat.err), LAMBDA cause :
            IF own = Panic \/ cause = PanicMsg THEN PanicMsg
            ELSE IF flat.m # "" THEN WithMessage(code, e.M, cause)
            ELSE WithoutMessage(code, cause))))

\* The url.Values results: the nil map, or a map with its entries.
NilValues == [nil |-> TRUE, m |-> NoVals]

\* resperr.ValidationErrors(err)
ValidationErrors(err) ==
    LET ve == errorsAs(err, "ValidationError")
    IN  IF err.kind # "nil" /\ ve.kind # "nil"
        THEN [nil |-> FALSE, m |-> ve.vals]
        ELSE NilValues

\* ------------------------------------------------------- the Validator
\* A Validator is [nil, m]: nil is TRUE for the zero value (no map
\* allocated), m gives the messages of every field, the empty list for a
\* field without entry.  The methods only ever store non-empty lists, so
\* the fields with a non-empty list are the keys of the map.

\* fmt.Sprintf(message, a...) for the formats the callers use: the verb %d
\* consumes one argument; a missing and an extra argument are reported in
\* the text.
Sprintf(message, a) ==
    CASE message = "min %d" /\ Len(a) = 0 -> "min %!d(MISSING)"
      [] message = "min %d" /\ Len(a) = 1 -> "min 1"
      [] message # "min %d" /\ Len(a) = 1 -> message \o "%!(EXTRA int=1)"
      [] OTHER -> message

\* len(*v)
MapLen(val) == Cardinality({f \in Fields : val.m[f] # <<>>})

\* Add that sets the field to the message, as url.Values.Set would.
Add_Set(val, field, message, a) ==
    [nil |-> FALSE,
     m |-> [val.m EXCEPT ![field] = <<Sprintf(message, a)>>]]

\* Validator.Add
Add(val, field, message, a) ==
    [nil |-> FALSE,
     m |-> [val.m EXCEPT ![field] = Append(@, Sprintf(message, a))]]

\* AddIf that allocates the map before it looks at the condition.
AddIf_AllocFirst(val, field, cond, message, a) ==
    IF ~cond THEN [val EXCEPT !.nil = FALSE] ELSE Add(val, field, message, a)

\* Validator.AddIf
AddIf(val, field, cond, message, a) ==
    IF ~cond THEN val ELSE Add(val, field, message, a)

\* AddIfUnset without the test for an existing message.
AddIfUnset_NoTest(val, field, cond, message, a) ==
    AddIf(val, field, cond, message, a)

\* Validator.AddIfUnset
AddIfUnset(val, field, cond, message, a) ==
    IF Len(val.m[field]) > 0 THEN val
    ELSE AddIf(val, field, cond, message, a)

\* Err that wraps the map without looking at its length.
Err_NoLenTest(val) == MkVE(val.m)

\* Validator.Err: the error shares the map of the validator
Err(val) == IF MapLen(val) < 1 THEN Nil ELSE MkVE(val.m)

\* Validator.Valid
Valid(val) == MapLen(val) = 0

\* An error Err returned earlier, after a later call left the validator as
\* after: a copy of the map would keep what Err saw.
HeldErr_Copy(held, after) == held

\* An error Err returned earlier, after a later call left the validator as
\* after: validatorErrors(*v) converts the map without copying it, so the
\* error reads the map the validator writes.
HeldErr(held, after) ==
    IF held.kind = "ve" THEN [held EXCEPT !.vals = after.m] ELSE held

\* ================================================================ state
VARIABLES
    err,       \* the error value the handler code has built so far
    resolved,  \* TRUE when code, msg and details were computed from err
    code,      \* the int replyError got from StatusCode(err)
    msg,       \* the string replyError got from UserMessage(err)
    details,   \* the url.Values replyError got from ValidationErrors(err)
    loops,     \* how the loops of StatusCode and UserMessage over allAs went
    errText,   \* the string err.Error() returned
    v,         \* the Validator: nil tells the zero value from an allocated map
    calls,     \* number of Add, AddIf and AddIfUnset calls made on v
    last,      \* the last call made on v, with its arguments
    hist,      \* the <<field, message>> pairs the calls so far had to record
    checked,   \* TRUE when verr and valid were computed from v
    verr,      \* the error v.Err() returned
    valid,     \* the bool v.Valid() returned
    direct,    \* the fields Add or AddIf was called on
    inspected, \* TRUE when vfields was read from verr
    vfields    \* the url.Values ValidationErrors(verr) returned

chainVars == <<err, resolved, code, msg, details, loops, errText>>
validatorVars ==
    <<v, calls, last, hist, checked, verr, valid, direct, inspected, vfields>>
vars == <<err, resolved, code, msg, details, loops, errText,
          v, calls, last, hist, checked, verr, valid, direct,
          inspected, vfields>>

\* Messages of the callers of E, M and NotFound.
NotFoundMsg == "could not find path \"/example/url\""

\* The field messages of a validation error built elsewhere.
SampleVals == [f \in Fields |-> IF f = "x" THEN <<"required">> ELSE <<>>]

\* Errors of one node, as other code hands them to the handler.
SmallErrs ==
    {MkLeaf(p) : p \in Profiles}
        \cup {MkE(s, m, Nil) : s \in ECodes, m \in EMsgs}
        \cup {MkM(m) : m \in EMsgs}

\* var v resperr.Validator
ZeroValidator == [nil |-> TRUE, m |-> NoVals]

\* No loop has run.
NoLoops == [sc |-> LoopStart, um |-> LoopStart]

NoCall == [op |-> "none", field |-> "", cond |-> FALSE, text |-> ""]

\* The formats and arguments the callers of the Validator pass.
Formats == {<<"", <<>>>>, <<"required", <<>>>>, <<"min %d", <<1>>>>}

Init ==
    /\ err = Nil
    /\ resolved = FALSE
    /\ code = 0
    /\ msg = ""
    /\ details = NilValues
    /\ loops = NoLoops
    /\ errText = ""
    /\ v = ZeroValidator
    /\ calls = 0
    /\ last = NoCall
    /\ hist = <<>>
    /\ checked = FALSE
    /\ verr = Nil
    /\ valid = TRUE
    /\ direct = {}
    /\ inspected = FALSE
    /\ vfields = NilValues

\* err = e: what was computed from the error before is gone.
Assigned(e) ==
    /\ err' = e
    /\ resolved' = FALSE
    /\ code' = 0
    /\ msg' = ""
    /\ details' = NilValues
    /\ loops' = NoLoops
    /\ errText' = ""
    /\ UNCHANGED validatorVars

\* A building step leaves an error that has not been resolved yet.
Built(e) == Size(e) <= MaxNodes /\ Assigned(e)

\* The error under construction can take n more nodes.
Room(n) == Size(err) + n <= MaxNodes

\* The handler starts with err = nil; an error originates in one of the
\* calls below and is then wrapped on its way up.
\* err = <an error of another package>, e.g. errors.New, a net error,
\* context.DeadlineExceeded
ForeignError ==
    \E p \in Profiles : err.kind = "nil" /\ Built(WithId(MkLeaf(p), 1))

\* err = <a wrapper of another package around err>, e.g.
\* fmt.Errorf("wrapping: %w", err)
ForeignWrap ==
    /\ Room(1)
    /\ \E p \in Profiles :
           err.kind # "nil" /\ Built(WithId(MkWrap(p, err), err.id + 1))

\* err = errors.Join(err, other) or errors.Join(other, err)
Join ==
    /\ Room(2)
    /\ \E other \in SmallErrs :
           /\ err.kind # "nil"
           /\ LET o == WithId(other, err.id + 1)
              IN  \/ Built(WithId(MkMulti("plain", <<err, o>>), err.id + 2))
                  \/ Built(WithId(MkMulti("plain", <<o, err>>), err.id + 2))

\* err = errors.Join(err, err): both causes are the one error err
JoinSelf ==
    /\ err.kind # "nil"
    /\ Room(Size(err) + 1)
    /\ Built(WithId(MkMulti("plain", <<err, err>>), err.id + 1))

\* err = resperr.E{S: s, M: m, E: err}
WrapE ==
    /\ Room(1)
    /\ \E s \in ECodes, m \in EMsgs :
           Built(WithId(MkE(s, m, err), err.id + 1))

\* err = resperr.New(code, format, v...): the format wraps err with %w or
\* has no %w
New ==
    /\ Room(2)
    /\ \E c \in ECodes :
           \/ /\ err.kind # "nil"
              /\ Built(WithId(MkE(c, "", WithId(MkWrap("plain", err),
                                                err.id + 1)), err.id + 2))
           \/ /\ err.kind = "nil"
              /\ Built(WithId(MkE(c, "", WithId(MkLeaf("plain"), 1)), 2))

\* err = resperr.M(format, v...)
M == \E m \in EMsgs : err.kind = "nil" /\ Built(WithId(MkM(m), 1))

\* err = resperr.NotFound(r)
NotFound ==
    err.kind = "nil" /\ Built(WithId(MkE(404, NotFoundMsg, Nil), 1))

\* err = v.Err() of a validator that recorded a message
ValidatorErr == err.kind = "nil" /\ Built(WithId(MkVE(SampleVals), 1))

\* err = nil
NoError == err.kind # "nil" /\ Built(Nil)

\* replyError(w, r, err) of the example: the three lookups
ReplyError ==
    /\ ~resolved
    /\ resolved' = TRUE
    /\ code' = StatusCode(err)
    /\ msg' = UserMessage(err)
    /\ details' = ValidationErrors(err)
    /\ loops' = IF err.kind = "nil" THEN NoLoops
                ELSE [sc |-> allAs(err, "StatusCoder"),
                      um |-> allAs(err, "UserMessenger")]
    /\ UNCHANGED <<err, errText>>
    /\ UNCHANGED validatorVars

Next ==
    \/ ForeignError
    \/ ForeignWrap
    \/ Join
    \/ JoinSelf
    \/ WrapE
    \/ New
    \/ M
    \/ NotFound
    \/ ValidatorErr
    \/ NoError
    \/ ReplyError

Spec == Init /\ [][Next]_vars

\* ------------------------------------------------ the Error texts in use
\* The errors Error() is called on: deeper chains of fewer kinds of nodes.
DeepProfiles == {"plain", "sc5", "asT"}
DeepWrapProfiles == {"plain", "deadline"}

BuiltDeep(e) == Size(e) <= MaxDeep /\ Assigned(e)

\* err = <an error of another package>
DeepForeignError ==
    \E p \in DeepProfiles :
        err.kind = "nil" /\ BuiltDeep(WithId(MkLeaf(p), 1))

\* err = <a wrapper of another package around err>
DeepForeignWrap ==
    \E p \in DeepWrapProfiles :
        err.kind # "nil" /\ BuiltDeep(WithId(MkWrap(p, err), err.id + 1))

\* err = errors.Join(err, errors.New(...))
DeepJoin ==
    /\ err.kind # "nil"
    /\ BuiltDeep(WithId(MkMulti("plain",
                    <<err, WithId(MkLeaf("plain"), err.id + 1)>>),
                 err.id + 2))

\* err = resperr.E{S: s, M: m, E: err}
DeepWrapE ==
    \E s \in ECodes, m \in EMsgs :
        BuiltDeep(WithId(MkE(s, m, err), err.id + 1))

\* err.Error() and resperr.StatusCode(err), as the tests compare them
ErrorString ==
    /\ ~resolved
    /\ err.kind # "nil"
    /\ resolved' = TRUE
    /\ code' = StatusCode(err)
    /\ errText' = ErrorOf(err)
    /\ UNCHANGED <<err, msg, details, loops>>
    /\ UNCHANGED validatorVars

NextError ==
    \/ DeepForeignError
    \/ DeepForeignWrap
    \/ DeepJoin
    \/ DeepWrapE
    \/ ErrorString

SpecError == Init /\ [][NextError]_vars

\* ------------------------------------------------ the Validator in use
\* A call on v: the state of the validator after it, and the bookkeeping.
\* record tells whether the call had to record its message.  The caller
\* keeps the error an earlier Err returned and reads its fields again.
Called(op, field, cond, text, after, record, isDirect) ==
    /\ calls < MaxCalls
    /\ calls' = calls + 1
    /\ v' = after
    /\ last' = [op |-> op, field |-> field, cond |-> cond, text |-> text]
    /\ hist' = IF record THEN Append(hist, <<field, text>>) ELSE hist
    /\ direct' = IF isDirect THEN direct \cup {field} ELSE direct
    /\ checked' = FALSE
    /\ verr' = HeldErr(verr, after)
    /\ valid' = TRUE
    /\ inspected' = FALSE
    /\ vfields' = NilValues
    /\ UNCHANGED chainVars

Recorded(field) == \E i \in 1..Len(hist) : hist[i][1] = field

\* v.Add(field, message, a...)
DoAdd ==
    \E field \in Fields, f \in Formats :
        Called("Add", field, TRUE, Sprintf(f[1], f[2]),
               Add(v, field, f[1], f[2]), TRUE, TRUE)

\* v.AddIf(field, cond, message, a...)
DoAddIf ==
    \E field \in Fields, cond \in BOOLEAN, f \in Formats :
        Called("AddIf", field, cond, Sprintf(f[1], f[2]),
               AddIf(v, field, cond, f[1], f[2]), cond, TRUE)

\* v.AddIfUnset(field, cond, message, a...)
DoAddIfUnset ==
    \E field \in Fields, cond \in BOOLEAN, f \in Formats :
        Called("AddIfUnset", field, cond, Sprintf(f[1], f[2]),
               AddIfUnset(v, field, cond, f[1], f[2]),
               cond /\ ~Recorded(field), FALSE)

\* err := v.Err(); v.Valid()
Check ==
    /\ ~checked
    /\ checked' = TRUE
    /\ verr' = Err(v)
    /\ valid' = Valid(v)
    /\ UNCHANGED <<v, calls, last, hist, direct, inspected, vfields>>
    /\ UNCHANGED chainVars

\* fields := resperr.ValidationErrors(err) on the error Err returned, right
\* after Err or after later calls on v
Inspect ==
    /\ ~inspected
    /\ checked \/ verr.kind # "nil"
    /\ inspected' = TRUE
    /\ vfields' = ValidationErrors(verr)
    /\ UNCHANGED <<v, calls, last, hist, checked, verr, valid, direct>>
    /\ UNCHANGED chainVars

NextValidator ==
    \/ DoAdd
    \/ DoAddIf
    \/ DoAddIfUnset
    \/ Check
    \/ Inspect

SpecValidator == Init /\ [][NextValidator]_vars

\* ============================================================== claims
\* The nodes of err in depth-first pre-order: a node, then its causes.
RECURSIVE PreOrder(_), PreOrderList(_, _)
PreOrder(e) ==
    IF e.kind = "nil" THEN <<>> ELSE <<e>> \o PreOrderList(e.kids, 1)
PreOrderList(es, i) ==
    IF i > Len(es) THEN <<>>
    ELSE PreOrder(es[i]) \o PreOrderList(es, i + 1)

Nodes(e) == {PreOrder(e)[i] : i \in 1..Len(PreOrder(e))}

\* The positions of the StatusCoder nodes that report a non-zero status,
\* and of the UserMessenger nodes that report a non-empty message.
StatusAt(e) ==
    {i \in 1..Len(PreOrder(e)) :
        /\ Implements(PreOrder(e)[i], "StatusCoder")
        /\ StatusCodeOf(PreOrder(e)[i]) \notin {0, Panic}}
MessageAt(e) ==
    {i \in 1..Len(PreOrder(e)) :
        /\ Implements(PreOrder(e)[i], "UserMessenger")
        /\ UserMessageOf(PreOrder(e)[i]) \notin {"", PanicMsg}}

Min(S) == CHOOSE i \in S : \A j \in S : i <= j

\* A node that carries a non-zero status of its own: an E with S set, a
\* validation error, a StatusCoder of another package answering non-zero.
OwnStatus(n) ==
    CASE n.kind = "E" -> n.S
      [] n.kind = "ve" -> 400
      [] n.kind \in {"leaf", "wrap", "multi"} /\ n.p = "sc5" -> 5
      [] OTHER -> 0
HasOwnStatus(e) == \E n \in Nodes(e) : OwnStatus(n) # 0
HasTimeout(e) ==
    \E n \in Nodes(e) : Implements(n, "Timeout") /\ Timeout(n)
HasTemporary(e) ==
    \E n \in Nodes(e) : Implements(n, "Temporary") /\ Temporary(n)
HasMessage(e) ==
    \E n \in Nodes(e) :
        Implements(n, "UserMessenger") /\ UserMessageOf(n) # ""

\* C1: for a non-nil err, StatusCode(err) is the first non-zero status
\* reported by a StatusCoder node in depth-first pre-order; nodes reporting
\* 0 are skipped, and a non-zero status on the outermost node wins.
C1_FirstNonZeroStatus ==
    (resolved /\ err.kind # "nil" /\ StatusAt(err) # {})
        => code = StatusCodeOf(PreOrder(err)[Min(StatusAt(err))])

\* C2: an error with no node carrying a non-zero status of its own and no
\* node reporting Timeout() or Temporary() true, but with a node whose
\* UserMessage() is non-empty, resolves to 400 (stated for the calls of
\* StatusCode that return).
C2_MessageMeansBadRequest ==
    (/\ resolved
     /\ err.kind # "nil"
     /\ code # Panic
     /\ ~HasOwnStatus(err)
     /\ ~HasTimeout(err)
     /\ ~HasTemporary(err)
     /\ HasMessage(err))
        => code = 400

\* C3: the precedence ladder: an explicit non-zero status of the chain beats
\* everything; without one, Timeout() true gives 504, else Temporary() true
\* gives 503, else a message gives 400, else 500 (stated for the calls of
\* StatusCode that return).
C3_PrecedenceLadder ==
    (resolved /\ err.kind # "nil" /\ code # Panic) =>
        /\ HasOwnStatus(err) =>
               \E n \in Nodes(err) : OwnStatus(n) # 0 /\ code = OwnStatus(n)
        /\ (~HasOwnStatus(err) /\ HasTimeout(err)) => code = 504
        /\ (~HasOwnStatus(err) /\ ~HasTimeout(err) /\ HasTemporary(err))
               => code = 503
        /\ (/\ ~HasOwnStatus(err)
            /\ ~HasTimeout(err)
            /\ ~HasTemporary(err)
            /\ ~HasMessage(err)) => code = 500

\* C4: deferral propagates through zero: resolving E{S: 0, M: m, E: c} with
\* a non-nil cause c gives what resolving c gives, and E.StatusCode()
\* answers 0 only for an E with S = 0 and no cause.
C4_DeferralThroughZero ==
    /\ (resolved /\ err.kind = "E" /\ err.S = 0 /\ Unwrap(err).kind # "nil")
           => code = StatusCode(Unwrap(err))
    /\ \A n \in Nodes(err) :
           (n.kind = "E" /\ E_StatusCode(n) = 0)
               => (n.S = 0 /\ Unwrap(n).kind = "nil")

\* C4 witness: an E with S = 0 around a cause that resolves to 5 was resolved
\* to 5.
C4_Witness ==
    /\ resolved
    /\ err.kind = "E"
    /\ err.S = 0
    /\ Unwrap(err).kind # "nil"
    /\ StatusCode(Unwrap(err)) = 5
    /\ code = 5

\* C5: for a non-nil err, UserMessage(err) is the first non-empty message
\* reported by a UserMessenger node in depth-first pre-order, and without
\* one it is the standard status text of StatusCode(err).
C5_FirstNonEmptyMessage ==
    (resolved /\ err.kind # "nil") =>
        IF MessageAt(err) # {}
        THEN msg = UserMessageOf(PreOrder(err)[Min(MessageAt(err))])
        ELSE code # Panic /\ msg = StatusText(code)

\* C6: for a non-nil err, UserMessage(err) is a non-empty string, whatever
\* status the error resolves to (stated for the calls of UserMessage that
\* return).
C6_MessageNeverEmpty ==
    (resolved /\ err.kind # "nil" /\ msg # PanicMsg) => msg # ""

\* C7: StatusCode, UserMessage and ValidationErrors return a value for nil
\* and for every finite error chain; none of them panics.
C7_Total ==
    resolved => (code # Panic /\ msg # PanicMsg)

\* C8: StatusCode(nil) is 200 and UserMessage(nil) is the empty string.
C8_NilIsOK ==
    (resolved /\ err.kind = "nil") => (code = 200 /\ msg = "")

\* C8 witness: the nil error was resolved.
C8_Witness == resolved /\ err.kind = "nil" /\ code = 200

\* C9: after any sequence of Add, AddIf and AddIfUnset calls on a zero
\* Validator, Valid() is true exactly when Err() is nil, and exactly when no
\* call so far recorded a message.
C9_ValidIffNoError ==
    checked =>
        /\ valid <=> (verr.kind = "nil")
        /\ valid <=> (hist = <<>>)

\* C9 witness: a validator that recorded a message was found invalid.
C9_Witness == checked /\ ~valid /\ verr.kind = "ve" /\ Len(hist) > 0

\* C10: AddIfUnset(field, cond, msg) appends msg to field exactly when cond
\* is true and field has no message; otherwise it appends nothing.  A field
\* that only AddIfUnset was called on never holds more than one message.
C10_AddIfUnset ==
    /\ [][(calls' = calls + 1 /\ last'.op = "AddIfUnset") =>
            v'.m = IF last'.cond /\ Len(v.m[last'.field]) = 0
                   THEN [v.m EXCEPT ![last'.field] = <<last'.text>>]
                   ELSE v.m]_vars
    /\ [](\A f \in Fields : f \notin direct => Len(v.m[f]) <= 1)

\* C10 witness: AddIfUnset with a true condition on a field that already
\* has its one message from AddIfUnset left the field alone.
C10_Witness ==
    /\ last.op = "AddIfUnset"
    /\ last.cond
    /\ last.field \notin direct
    /\ Len(v.m[last.field]) = 1
    /\ v.m[last.field][1] # last.text

\* The messages the calls so far had to record for field, in call order.
HistOf(field) ==
    LET sel == SelectSeq(hist, LAMBDA h : h[1] = field)
    IN  [i \in 1..Len(sel) |-> sel[i][2]]

IsPrefix(s, t) == Len(s) <= Len(t) /\ SubSeq(t, 1, Len(s)) = s

\* A call that takes a path recording nothing: AddIf with a false
\* condition, AddIfUnset with a false condition or on a field that has a
\* message.
NonRecording(before, call) ==
    \/ call.op = "AddIf" /\ ~call.cond
    \/ call.op = "AddIfUnset"
           /\ (~call.cond \/ Len(before.m[call.field]) > 0)

\* C11: a call that takes a non-recording path leaves the Validator as it
\* was: no field's list changes and no map is allocated, so the zero value
\* stays the zero value and Err() on it afterwards is nil.
C11_NonRecordingFrame ==
    /\ [][(calls' = calls + 1 /\ NonRecording(v, last')) => v' = v]_vars
    /\ []((checked /\ calls > 0 /\ hist = <<>>)
            => (v = ZeroValidator /\ verr.kind = "nil"))

\* C11 witness: after an AddIf with a false condition the validator is
\* still the zero value and Err() returned nil.
C11_Witness ==
    /\ checked
    /\ last.op = "AddIf"
    /\ ~last.cond
    /\ v = ZeroValidator
    /\ verr.kind = "nil"

\* C12: the list of each field, read through ValidationErrors(v.Err()), is
\* the messages recorded for the field in call order, duplicates kept; a
\* call only ever extends a list at its end, so an invalid validator never
\* becomes valid again.
C12_MessagesInCallOrder ==
    /\ []((checked /\ inspected)
            => \A f \in Fields : vfields.m[f] = HistOf(f))
    /\ [][\A f \in Fields : IsPrefix(v.m[f], v'.m[f])]_vars
    /\ [][~Valid(v) => ~Valid(v')]_vars

\* C12 witness: a field was read with the same message recorded twice.
C12_Witness ==
    /\ checked
    /\ inspected
    /\ \E f \in Fields :
           /\ Len(vfields.m[f]) >= 2
           /\ vfields.m[f][1] = vfields.m[f][2]

\* An error Validator.Err returned, bare or under single-cause layers that
\* carry no non-zero status of their own.
RECURSIVE ValidatorErrUnder(_)
ValidatorErrUnder(e) ==
    \/ e.kind = "ve"
    \/ /\ e.kind \in {"E", "wrap"}
       /\ OwnStatus(e) = 0
       /\ ValidatorErrUnder(Unwrap(e))

\* C13: a non-nil error returned by Validator.Err() resolves to 400, bare
\* and under layers that carry no non-zero status of their own.
C13_ValidatorErrIsBadRequest ==
    (resolved /\ ValidatorErrUnder(err)) => code = 400

\* C14: the error Err() returned shares the map of the validator: what
\* ValidationErrors reads from it after later calls on the validator is
\* what the validator holds then, the later messages included.
C14_ErrSharesMap ==
    (inspected /\ verr.kind = "ve") => (~vfields.nil /\ vfields.m = v.m)

\* C14 witness: an Add made after Err() shows at the end of the field's
\* list read from the error returned before it.
C14_Witness ==
    /\ inspected
    /\ ~checked
    /\ verr.kind = "ve"
    /\ last.op = "Add"
    /\ Len(vfields.m[last.field]) >= 1
    /\ vfields.m[last.field][Len(vfields.m[last.field])] = last.text
    /\ Len(hist) >= 2

\* The capabilities the resolvers walk the chain for, and the loop of each.
Caps == {"StatusCoder", "UserMessenger"}
Loop(T) == IF T = "StatusCoder" THEN loops.sc ELSE loops.um

\* The nodes of e that are of type T, in depth-first pre-order.
Matching(e, T) == SelectSeq(PreOrder(e), LAMBDA n : Implements(n, T))

\* C16: allAs yields the matching nodes in depth-first pre-order, a node
\* before its causes and the causes of a multi-cause node in list order;
\* a loop that runs to the end got all of them, and once the loop body
\* stops the loop no further node is visited or yielded.
C16_PreOrderAndCancel ==
    (resolved /\ err.kind # "nil") =>
        \A T \in Caps :
            /\ IsPrefix(Loop(T).seen, Matching(err, T))
            /\ IsPrefix(Loop(T).visited, PreOrder(err))
            /\ Loop(T).go =>
                   /\ Loop(T).visited = PreOrder(err)
                   /\ Loop(T).seen = Matching(err, T)
            /\ Loop(T).found =>
                   /\ Loop(T).seen # <<>>
                   /\ Loop(T).visited[Len(Loop(T).visited)]
                          = Loop(T).seen[Len(Loop(T).seen)]

\* Number of places of seq that hold the error value id, and number of
\* paths from the root of e to the error value id.
Visits(seq, id) == Cardinality({i \in 1..Len(seq) : seq[i].id = id})
RECURSIVE Paths(_, _), PathsSeq(_, _, _)
Paths(e, id) ==
    IF e.kind = "nil" THEN 0
    ELSE (IF e.id = id THEN 1 ELSE 0) + PathsSeq(e.kids, 1, id)
PathsSeq(es, i, id) ==
    IF i > Len(es) THEN 0 ELSE Paths(es[i], id) + PathsSeq(es, i + 1, id)

\* C17 as stated: in a walk that runs to the end no error value is visited
\* twice and none is yielded twice, also when it is reachable from the root
\* by more than one path.
C17_NoNodeTwice ==
    resolved =>
        \A T \in Caps :
            Loop(T).go =>
                \A n \in Nodes(err) :
                    /\ Visits(Loop(T).visited, n.id) <= 1
                    /\ Visits(Loop(T).seen, n.id) <= 1

\* C17: in a walk that runs to the end an error value is visited once for
\* every path that leads to it from the root, and yielded as often when it
\* is of type T: once when one path leads to it, once per cause when a
\* multi-cause error holds it more than once.
C17_OncePerPath ==
    resolved =>
        \A T \in Caps :
            Loop(T).go =>
                \A n \in Nodes(err) :
                    /\ Visits(Loop(T).visited, n.id) = Paths(err, n.id)
                    /\ Visits(Loop(T).seen, n.id) =
                           IF Implements(n, T) THEN Paths(err, n.id) ELSE 0

\* C17 witness: the walk for StatusCoder ran to the end of a chain in which
\* a StatusCoder is the cause of a multi-cause error twice, and yielded it
\* twice.
C17_Witness ==
    /\ resolved
    /\ loops.sc.go
    /\ \E n \in Nodes(err) :
           /\ Implements(n, "StatusCoder")
           /\ Paths(err, n.id) = 2
           /\ Visits(loops.sc.seen, n.id) = 2

\* The leading run of directly nested E values of e, outermost first, the
\* first non-empty M among them, and the cause below the run.
RECURSIVE Run(_)
Run(e) ==
    <<e>> \o (IF Unwrap(e).kind = "E" THEN Run(Unwrap(e)) ELSE <<>>)
FirstM(e) ==
    LET withM == SelectSeq(Run(e), LAMBDA n : n.M # "")
    IN  IF withM = <<>> THEN "" ELSE withM[1].M
Below(e) == Unwrap(Run(e)[Len(Run(e))])

\* The text of the cause below the run, the status text of code when there
\* is none.
CauseText(e, c) ==
    IF Below(e).kind = "nil" THEN StatusText(c) ELSE ErrorOf(Below(e))

\* The codes an Error text can start with.
RenderCodes == {5, 400, 404, 500, 503, 504}

\* C15: the text of E.Error() is "[code] <message> cause" with the first
\* non-empty M of the leading run of E values as message when the run has
\* one, and "[code] cause" when it has none; cause is the text of the first
\* cause below the run that is no E, the status text of the code when that
\* cause is nil (stated for the calls of Error that return).
C15_ErrorFlattensRun ==
    (resolved /\ err.kind = "E" /\ errText # PanicMsg) =>
        \E c \in RenderCodes :
            errText = IF FirstM(err) # ""
                      THEN WithMessage(c, FirstM(err), CauseText(err, c))
                      ELSE WithoutMessage(c, CauseText(err, c))

\* C18: StatusCode never returns 0; so E.StatusCode() of an E with a
\* non-nil cause is never 0, and the loop of StatusCode ends at such a
\* node instead of passing it by.
C18_NeverZero ==
    /\ resolved => code # 0
    /\ \A n \in Nodes(err) :
           (n.kind = "E" /\ Unwrap(n).kind # "nil") => E_StatusCode(n) # 0
    /\ \A i \in 1..Len(loops.sc.seen) :
           (loops.sc.seen[i].kind = "E"
                /\ Unwrap(loops.sc.seen[i]).kind # "nil")
               => (i = Len(loops.sc.seen) /\ ~loops.sc.go)

\* C18 witness: an E with S = 0 around a StatusCoder answering 0 was
\* resolved to 500, and the loop of StatusCode ended at the E.
C18_Witness ==
    /\ resolved
    /\ err.kind = "E"
    /\ err.S = 0
    /\ Unwrap(err).kind # "nil"
    /\ Unwrap(err).p = "sc0"
    /\ code = 500
    /\ loops.sc.seen = <<err>>

====
